---- MODULE Spec2Model ----
(***************************************************************************)
(* A model of luakit's luaclass.c: the class registry, type recognition of *)
(* userdata, the property table, the generic __index / __newindex          *)
(* dispatch, the object constructor and the class signals.                 *)
(*                                                                         *)
(* Lua values are records [t |-> <Lua type name>, v |-> <payload>].  A Lua *)
(* string is the tuple of its bytes, so that a string with an embedded     *)
(* zero byte and the text of a number can be told apart from a name.       *)
(***************************************************************************)
EXTENDS Integers, Sequences, FiniteSets, TLC

\* ------------------------------------------------------------------ bounds

\* Userdata blocks the class allocators may create.
MaxObjects == 2
\* Signal registrations stored at one time, over all classes and names.
MaxRegs == 2
\* How far below zero a reference count may be driven before the model stops.
MaxDebt == 1

\* --------------------------------------------------------------- Lua values

NULL == 0

V(t, v) == [t |-> t, v |-> v]
Nil == V("nil", 0)
Bool(b) == V("boolean", b)
Num(n) == V("number", n)
Str(s) == V("string", s)
Tab(i) == V("table", i)
Fun(i) == V("function", i)
LightUD(p) == V("lightuserdata", p)
UD(i) == V("userdata", i)

\* The byte strings the model uses.
sA == <<97>>
sB == <<98>>
sOne == <<49>>
sA0B == <<97, 0, 98>>
sIndex == <<95, 95, 105, 110, 100, 101, 120>>
sShow == <<115, 104, 111, 119>>

\* What a consumer of a `const char *` sees of a Lua string: the bytes before
\* the first zero byte.
RECURSIVE CStr(_)
CStr(s) ==
    IF s = <<>> \/ Head(s) = 0 THEN <<>> ELSE <<Head(s)>> \o CStr(Tail(s))

\* lua_tolstring on a number: the decimal text (LUAI_NUMFMT "%.14g") of a
\* non-negative integer.
RECURSIVE NumToStr(_)
NumToStr(n) ==
    IF n < 10 THEN <<48 + n>> ELSE NumToStr(n \div 10) \o <<48 + (n % 10)>>

\* ------------------------------------------------------------------- state

VARIABLES
    luaH_classes,   \* the registered classes, in registration order
    registry,       \* LUA_REGISTRYINDEX[lightuserdata(class)]
    class,          \* the fields of each lua_class_t
    tables,         \* the Lua tables of the heap: key -> value
    objects,        \* the full userdata of the heap: metatable and allocating class
    refcount,       \* the object registry's reference count of each function
    last            \* the most recent call: its arguments and what it did

vars == <<luaH_classes, registry, class, tables, objects, refcount, last>>

\* The lua_class_t structures the program declares.
Classes == {1, 2}

EmptyMap == [k \in {} |-> 0]
MapPut(m, k, x) == [j \in DOMAIN m \cup {k} |-> IF j = k THEN x ELSE m[j]]

\* The Lua functions the scripts offer as signal callbacks.
Funcs == {1, 2}

\* The names of the classes, by class.
ClassNames == <<"widget", "window", "download", "timer", "webview">>

\* A lua_class_t before luaH_class_setup: a zeroed static structure whose
\* property and signal trees are empty.
BlankClass ==
    [name |-> "", allocator |-> NULL,
     index_miss_property |-> NULL, newindex_miss_property |-> NULL,
     properties |-> EmptyMap, signals |-> EmptyMap]

\* The heap the interpreter starts with: table 1 is the metatable of a
\* userdata type of another library, userdata 1 is a block with no metatable
\* and userdata 2 a block of that other library.  A block has one field, which
\* the callbacks of its class may set and read.
InitTables == <<MapPut(EmptyMap, Str(sIndex), Tab(1))>>
InitObjects ==
    <<[mt |-> NULL, by |-> NULL, field |-> Nil], [mt |-> 1, by |-> NULL, field |-> Nil]>>

NoCalls == <<>>
NoErr == <<"none", "">>

\* What a C function of luaclass.c hands back: the callbacks it invoked in
\* order, its return value (the number of results), the results, the error it
\* raised and the stack slots of its arguments as it left them.
Res(calls, nret, vals, err, stack) ==
    [calls |-> calls, nret |-> nret, vals |-> vals, err |-> err, stack |-> stack]

\* A call that invokes no callback, returns nothing and raises nothing.
Quiet == Res(NoCalls, 0, <<>>, NoErr, <<>>)

\* The record of a call: the operation, its arguments, what it handed back
\* and, for luaH_class_get, the class it returned.
Outcome(op, args, r, ret) ==
    [op |-> op, args |-> args, calls |-> r.calls, nret |-> r.nret,
     vals |-> r.vals, err |-> r.err, stack |-> r.stack, ret |-> ret]

Init ==
    /\ luaH_classes = <<>>
    /\ registry = [c \in Classes |-> Nil]
    /\ class = [c \in Classes |-> BlankClass]
    /\ tables = InitTables
    /\ objects = InitObjects
    /\ refcount = [f \in Funcs |-> 0]
    /\ last = Outcome("init", <<>>, Quiet, NULL)

\* ------------------------------------------------------- the Lua C API used

lua_type(x) == x.t

\* A pointer to the block of a full userdata, the pointer of a light userdata,
\* NULL for every other value.
lua_touserdata(x) ==
    IF x.t \in {"userdata", "lightuserdata"} THEN x.v ELSE NULL

\* The metatable of a value (NULL: none).  Only full userdata carry one here;
\* light userdata share one per-type metatable, which no library sets.
lua_getmetatable(x) ==
    IF x.t = "userdata" THEN objects[x.v].mt ELSE NULL

lua_rawget(t, k) == IF k \in DOMAIN tables[t] THEN tables[t][k] ELSE Nil

lua_rawequal(a, b) == a = b

\* lua_isstring: a string, or a number (which converts to one).
lua_isstring(x) == x.t \in {"string", "number"}

\* lua_tolstring on a value lua_isstring accepts: its bytes.  A number is
\* converted in place, so the stack slot holds the string Str(bytes) afterwards.
lua_tolstring(x) == IF x.t = "number" THEN NumToStr(x.v) ELSE x.v

TypeError(expected) == <<"typerror", expected>>

\* ------------------------------------------------- type recognition (43-85)

\* luaH_toudata without the comparison of the two metatables.
luaH_toudata_anymt(x, c) == lua_touserdata(x)

luaH_toudata(x, c) ==
    LET p == lua_touserdata(x) IN
    IF p # NULL /\ lua_getmetatable(x) # NULL
    THEN IF lua_rawequal(registry[c], Tab(lua_getmetatable(x))) THEN p ELSE NULL
    ELSE p

luaH_checkudata(x, c) ==
    LET p == luaH_toudata(x, c) IN
    [p |-> p, err |-> IF p = NULL THEN TypeError(class[c].name) ELSE NoErr]

\* The stack luaH_toudata leaves, called on index ud of `stack`: with a
\* metatable it pushes the metatable and the class pointer, replaces the
\* pointer by the registry's value and pops both; without one it pushes
\* nothing.
luaH_toudata_stack(stack, ud, c) ==
    IF lua_touserdata(stack[ud]) # NULL /\ lua_getmetatable(stack[ud]) # NULL
    THEN LET pushed == stack \o <<Tab(lua_getmetatable(stack[ud])), LightUD(c)>>
             got == [pushed EXCEPT ![Len(pushed)] = registry[c]]
         IN SubSeq(got, 1, Len(got) - 2)
    ELSE stack

\* A call of luaH_checkudata on a value: the pointer it returns, the error it
\* raises and the stack it leaves.
CheckUdata(x, c) ==
    /\ last' = Outcome("checkudata", <<x, c>>,
                       Res(NoCalls, 0, <<>>, luaH_checkudata(x, c).err,
                           luaH_toudata_stack(<<x>>, 1, c)),
                       luaH_checkudata(x, c).p)
    /\ UNCHANGED <<luaH_classes, registry, class, tables, objects, refcount>>

luaH_class_get(x) ==
    IF lua_type(x) = "userdata"
    THEN LET hits == {i \in 1..Len(luaH_classes) :
                         luaH_toudata(x, luaH_classes[i]) # NULL}
         IN IF hits = {} THEN NULL
            ELSE luaH_classes[CHOOSE i \in hits : \A j \in hits : i <= j]
    ELSE NULL

\* ------------------------------------------------ registration (117-170)

\* luaH_class_setup: a new metatable, stored in the registry under the class
\* pointer, with __index set to itself and then the meta functions; the
\* library table of the methods, its own metatable; the class fields; the
\* class appended to luaH_classes.
luaH_class_setup(c, name, allocator, index_miss, newindex_miss, methods, meta) ==
    LET mt == Len(tables) + 1
        mtFields == [k \in {Str(sIndex)} \cup DOMAIN meta |->
                        IF k \in DOMAIN meta THEN meta[k] ELSE Tab(mt)]
    IN /\ tables' = tables \o <<mtFields, methods>>
       /\ registry' = [registry EXCEPT ![c] = Tab(mt)]
       /\ class' = [class EXCEPT ![c].allocator = allocator,
                                 ![c].name = name,
                                 ![c].index_miss_property = index_miss,
                                 ![c].newindex_miss_property = newindex_miss]
       /\ luaH_classes' = Append(luaH_classes, c)
       /\ last' = Outcome("class_setup", <<c>>, Quiet, NULL)
       /\ UNCHANGED <<objects, refcount>>

\* A property: the three callbacks (NULL: none).
Property(cb_new, cb_index, cb_newindex) ==
    [new |-> cb_new, index |-> cb_index, newindex |-> cb_newindex]

\* g_tree_insert keeping the value of an entry that exists.
g_tree_insert_keep(tree, key, value) ==
    IF key \in DOMAIN tree THEN tree ELSE MapPut(tree, key, value)

\* g_tree_insert: a new entry, or the value of the entry of that name replaced.
g_tree_insert(tree, key, value) == MapPut(tree, key, value)

\* g_tree_lookup with a `const char *` key: the entry whose name equals the
\* bytes before the key's first zero byte, or NULL.
\* The result is <<>> for NULL and <<property>> for a pointer to a property.
g_tree_lookup(tree, attr) ==
    IF CStr(attr) \in DOMAIN tree THEN <<tree[CStr(attr)]>> ELSE <<>>

\* luaH_class_add_property inserting into one tree that all classes share.
luaH_class_add_property_shared(c, name, cb_new, cb_index, cb_newindex) ==
    /\ class' = [d \in Classes |->
                    [class[d] EXCEPT !.properties =
                        g_tree_insert(@, name, Property(cb_new, cb_index, cb_newindex))]]
    /\ last' = Outcome("add_property",
                       <<c, name, Property(cb_new, cb_index, cb_newindex)>>, Quiet, NULL)
    /\ UNCHANGED <<luaH_classes, registry, tables, objects, refcount>>

luaH_class_add_property(c, name, cb_new, cb_index, cb_newindex) ==
    /\ class' = [class EXCEPT ![c].properties =
                    g_tree_insert(@, name, Property(cb_new, cb_index, cb_newindex))]
    /\ last' = Outcome("add_property",
                       <<c, name, Property(cb_new, cb_index, cb_newindex)>>, Quiet, NULL)
    /\ UNCHANGED <<luaH_classes, registry, tables, objects, refcount>>

\* The allocator of class c: a new userdata block whose metatable is the one
\* the registry holds for the class.
Allocate(c) == Append(objects, [mt |-> registry[c].v, by |-> c, field |-> Nil])

ClassAllocator(c) ==
    /\ objects' = Allocate(c)
    /\ last' = Outcome("allocator", <<c>>,
                       Res(NoCalls, 1, <<UD(Len(objects) + 1)>>, NoErr, <<>>), NULL)
    /\ UNCHANGED <<luaH_classes, registry, class, tables, refcount>>

\* luaH_class_get called on a value.
ClassGet(x) ==
    /\ last' = Outcome("class_get", <<x>>, Quiet, luaH_class_get(x))
    /\ UNCHANGED <<luaH_classes, registry, class, tables, objects, refcount>>

\* --------------------------------------------------- dispatch (195-278)

\* A callback invoked with object pointer p while the stack held `stack`.
Invocation(f, p, stack) == [fn |-> f, obj |-> p, stack |-> stack]

\* The property callbacks are functions of the classes built on luaclass.c:
\* callback f returns f % 3 results, each the number f.
PropFuncNRet(f) == f % 3
PropFuncVals(f) == [i \in 1..PropFuncNRet(f) |-> Num(f)]

\* Two callbacks of a class with a stored field: cbSet stores the value on
\* top of the stack in the field of the object and returns nothing; cbGet
\* returns the field of the object.
cbSet == 9
cbGet == 10

\* The values callback f pushes when called with object p.
PropFuncPush(f, p) == IF f = cbGet THEN <<objects[p].field>> ELSE PropFuncVals(f)

\* What an invocation does to the userdata blocks.
PropFuncEffect(objs, inv) ==
    IF inv.fn = cbSet
    THEN [objs EXCEPT ![inv.obj].field = inv.stack[Len(inv.stack)]]
    ELSE objs

\* The userdata blocks after the invocations of a call, in order.
RECURSIVE ApplyCalls(_, _)
ApplyCalls(objs, calls) ==
    IF calls = <<>> THEN objs
    ELSE ApplyCalls(PropFuncEffect(objs, Head(calls)), Tail(calls))

\* `return f(L, luaH_checkudata(L, 1, class))`: the argument is evaluated
\* first and raises when the object is not of the class.
CallPropFunc(f, c, stack) ==
    LET chk == luaH_checkudata(stack[1], c) IN
    IF chk.err # NoErr THEN Res(NoCalls, 0, <<>>, chk.err, stack)
    ELSE Res(<<Invocation(f, chk.p, stack)>>, PropFuncNRet(f), PropFuncPush(f, chk.p),
             NoErr, stack)

\* luaH_usemetatable looking the field up in the object instead of in its
\* metatable: a userdata has no fields of its own, so nothing is ever found.
luaH_usemetatable_noget(obj, field) == [n |-> 0, val |-> Nil]

\* luaH_usemetatable: the number of values pushed and the value.
luaH_usemetatable(obj, field) ==
    LET v == lua_rawget(lua_getmetatable(obj), field) IN
    [n |-> IF v # Nil THEN 1 ELSE 0, val |-> v]

\* luaL_checklstring: the bytes of a string; a number is converted in place
\* to its text; any other value raises a type error.
luaL_checklstring(x) ==
    IF lua_isstring(x)
    THEN [err |-> NoErr, s |-> lua_tolstring(x), slot |-> Str(lua_tolstring(x))]
    ELSE [err |-> TypeError("string"), s |-> <<>>, slot |-> x]

\* luaH_class_property_get, after its luaL_checklstring succeeded.
luaH_class_property_get(c, attr) == g_tree_lookup(class[c].properties, attr)

\* A NULL lua_class_t dereferenced.
Crash == <<"crash", "NULL class">>

\* luaH_class_index calling the write callback of the property.
luaH_class_index_newindex(stack) ==
    LET um == luaH_usemetatable(stack[1], stack[2]) IN
    IF um.n # 0 THEN Res(NoCalls, 1, <<um.val>>, NoErr, stack)
    ELSE
    LET c == luaH_class_get(stack[1])
        chk == luaL_checklstring(stack[2])
        stack2 == [stack EXCEPT ![2] = chk.slot]
    IN IF chk.err # NoErr THEN Res(NoCalls, 0, <<>>, chk.err, stack)
       ELSE IF c = NULL THEN Res(NoCalls, 0, <<>>, Crash, stack2)
       ELSE LET prop == luaH_class_property_get(c, chk.s) IN
            IF prop # <<>>
            THEN IF prop[1].newindex # NULL
                 THEN CallPropFunc(prop[1].newindex, c, stack2)
                 ELSE Res(NoCalls, 0, <<>>, NoErr, stack2)
            ELSE IF class[c].index_miss_property # NULL
                 THEN CallPropFunc(class[c].index_miss_property, c, stack2)
                 ELSE Res(NoCalls, 0, <<>>, NoErr, stack2)

luaH_class_index(stack) ==
    LET um == luaH_usemetatable(stack[1], stack[2]) IN
    IF um.n # 0 THEN Res(NoCalls, 1, <<um.val>>, NoErr, stack)
    ELSE
    LET c == luaH_class_get(stack[1])
        chk == luaL_checklstring(stack[2])
        stack2 == [stack EXCEPT ![2] = chk.slot]
    IN IF chk.err # NoErr THEN Res(NoCalls, 0, <<>>, chk.err, stack)
       ELSE IF c = NULL THEN Res(NoCalls, 0, <<>>, Crash, stack2)
       ELSE LET prop == luaH_class_property_get(c, chk.s) IN
            IF prop # <<>>
            THEN IF prop[1].index # NULL
                 THEN CallPropFunc(prop[1].index, c, stack2)
                 ELSE Res(NoCalls, 0, <<>>, NoErr, stack2)
            ELSE IF class[c].index_miss_property # NULL
                 THEN CallPropFunc(class[c].index_miss_property, c, stack2)
                 ELSE Res(NoCalls, 0, <<>>, NoErr, stack2)

\* luaH_class_newindex with the `else` bound to the inner `if`: a property
\* without a write callback goes on to the miss handler.
luaH_class_newindex_dangling(stack) ==
    LET um == luaH_usemetatable(stack[1], stack[2]) IN
    IF um.n # 0 THEN Res(NoCalls, 1, <<um.val>>, NoErr, stack)
    ELSE
    LET c == luaH_class_get(stack[1])
        chk == luaL_checklstring(stack[2])
        stack2 == [stack EXCEPT ![2] = chk.slot]
    IN IF chk.err # NoErr THEN Res(NoCalls, 0, <<>>, chk.err, stack)
       ELSE IF c = NULL THEN Res(NoCalls, 0, <<>>, Crash, stack2)
       ELSE LET prop == luaH_class_property_get(c, chk.s) IN
            IF prop # <<>> /\ prop[1].newindex # NULL
            THEN CallPropFunc(prop[1].newindex, c, stack2)
            ELSE IF class[c].newindex_miss_property # NULL
                 THEN CallPropFunc(class[c].newindex_miss_property, c, stack2)
                 ELSE Res(NoCalls, 0, <<>>, NoErr, stack2)

\* luaH_class_newindex returning 0 after the metatable shortcut.
luaH_class_newindex_ret0(stack) ==
    LET um == luaH_usemetatable(stack[1], stack[2]) IN
    IF um.n # 0 THEN Res(NoCalls, 0, <<>>, NoErr, stack)
    ELSE
    LET c == luaH_class_get(stack[1])
        chk == luaL_checklstring(stack[2])
        stack2 == [stack EXCEPT ![2] = chk.slot]
    IN IF chk.err # NoErr THEN Res(NoCalls, 0, <<>>, chk.err, stack)
       ELSE IF c = NULL THEN Res(NoCalls, 0, <<>>, Crash, stack2)
       ELSE LET prop == luaH_class_property_get(c, chk.s) IN
            IF prop # <<>>
            THEN IF prop[1].newindex # NULL
                 THEN CallPropFunc(prop[1].newindex, c, stack2)
                 ELSE Res(NoCalls, 0, <<>>, NoErr, stack2)
            ELSE IF class[c].newindex_miss_property # NULL
                 THEN CallPropFunc(class[c].newindex_miss_property, c, stack2)
                 ELSE Res(NoCalls, 0, <<>>, NoErr, stack2)

luaH_class_newindex(stack) ==
    LET um == luaH_usemetatable(stack[1], stack[2]) IN
    IF um.n # 0 THEN Res(NoCalls, 1, <<um.val>>, NoErr, stack)
    ELSE
    LET c == luaH_class_get(stack[1])
        chk == luaL_checklstring(stack[2])
        stack2 == [stack EXCEPT ![2] = chk.slot]
    IN IF chk.err # NoErr THEN Res(NoCalls, 0, <<>>, chk.err, stack)
       ELSE IF c = NULL THEN Res(NoCalls, 0, <<>>, Crash, stack2)
       ELSE LET prop == luaH_class_property_get(c, chk.s) IN
            IF prop # <<>>
            THEN IF prop[1].newindex # NULL
                 THEN CallPropFunc(prop[1].newindex, c, stack2)
                 ELSE Res(NoCalls, 0, <<>>, NoErr, stack2)
            ELSE IF class[c].newindex_miss_property # NULL
                 THEN CallPropFunc(class[c].newindex_miss_property, c, stack2)
                 ELSE Res(NoCalls, 0, <<>>, NoErr, stack2)

\* obj[key] on a userdata: the interpreter calls the __index field of the
\* metatable, so the userdata has a metatable.
ClassIndex(obj, key) ==
    /\ lua_getmetatable(obj) # NULL
    /\ last' = Outcome("index", <<obj, key>>, luaH_class_index(<<obj, key>>), NULL)
    /\ objects' = ApplyCalls(objects, luaH_class_index(<<obj, key>>).calls)
    /\ UNCHANGED <<luaH_classes, registry, class, tables, refcount>>

\* obj[key] = val on a userdata.
ClassNewindex(obj, key, val) ==
    /\ lua_getmetatable(obj) # NULL
    /\ last' = Outcome("newindex", <<obj, key, val>>,
                       luaH_class_newindex(<<obj, key, val>>), NULL)
    /\ objects' = ApplyCalls(objects, luaH_class_newindex(<<obj, key, val>>).calls)
    /\ UNCHANGED <<luaH_classes, registry, class, tables, refcount>>

\* ------------------------------------------------- construction (282-311)

\* The position of key k in the traversal order of a table.
PosOf(ord, k) == CHOOSE i \in 1..Len(ord) : ord[i] = k

\* The loop with the lua_pop(L, 1) of line 308 ahead of the callback: the
\* callback finds the key on top of the stack, not the value.
RECURSIVE NewLoop_popfirst(_, _, _, _, _, _, _, _)
NewLoop_popfirst(c, stack, p, T, ord, i, seen, calls) ==
    IF i > Len(ord) THEN Res(calls, 1, <<UD(p)>>, NoErr, stack)
    ELSE IF i \in seen THEN Res(calls, 0, <<>>, <<"hang", "lua_next">>, stack)
    ELSE
    LET k == ord[i]
        k2 == IF lua_isstring(k) THEN Str(lua_tolstring(k)) ELSE k
        prop == IF lua_isstring(k)
                THEN g_tree_lookup(class[c].properties, lua_tolstring(k))
                ELSE <<>>
        calls2 == IF prop # <<>> /\ prop[1].new # NULL
                  THEN Append(calls, Invocation(prop[1].new, p, stack \o <<UD(p), k2>>))
                  ELSE calls
    IN IF k2 = k THEN NewLoop_popfirst(c, stack, p, T, ord, i + 1, seen \cup {i}, calls2)
       ELSE IF k2 \notin DOMAIN T
            THEN Res(calls2, 0, <<>>, <<"error", "invalid key to 'next'">>, stack)
            ELSE NewLoop_popfirst(c, stack, p, T, ord, PosOf(ord, k2) + 1, seen \cup {i}, calls2)

\* The while(lua_next(L, 2)) loop of luaH_class_new over a table with
\* contents T that lua_next traverses in the order ord, at position i, for
\* the new object p.  The stack holds the two arguments, the new userdata,
\* the key and the value.  A key lua_isstring accepts is converted in place by
\* lua_tolstring; lua_next then continues after the converted key's place in
\* the table, and raises when the table has no such key.  `seen` holds the
\* positions visited: visiting one again means the loop never ends.
RECURSIVE NewLoop(_, _, _, _, _, _, _, _)
NewLoop(c, stack, p, T, ord, i, seen, calls) ==
    IF i > Len(ord) THEN Res(calls, 1, <<UD(p)>>, NoErr, stack)
    ELSE IF i \in seen THEN Res(calls, 0, <<>>, <<"hang", "lua_next">>, stack)
    ELSE
    LET k == ord[i]
        k2 == IF lua_isstring(k) THEN Str(lua_tolstring(k)) ELSE k
        prop == IF lua_isstring(k)
                THEN g_tree_lookup(class[c].properties, lua_tolstring(k))
                ELSE <<>>
        calls2 == IF prop # <<>> /\ prop[1].new # NULL
                  THEN Append(calls, Invocation(prop[1].new, p,
                                                stack \o <<UD(p), k2, T[k]>>))
                  ELSE calls
    IN IF k2 = k THEN NewLoop(c, stack, p, T, ord, i + 1, seen \cup {i}, calls2)
       ELSE IF k2 \notin DOMAIN T
            THEN Res(calls2, 0, <<>>, <<"error", "invalid key to 'next'">>, stack)
            ELSE NewLoop(c, stack, p, T, ord, PosOf(ord, k2) + 1, seen \cup {i}, calls2)

\* luaH_checktable: a type error unless the value is a table.
luaH_checktable(x) == IF x.t = "table" THEN NoErr ELSE TypeError("table")

\* luaH_class_new with the arguments `stack`; T and ord are the contents and
\* the traversal order of the table at index 2 when it is one.
luaH_class_new(c, stack, T, ord) ==
    IF luaH_checktable(stack[2]) # NoErr
    THEN Res(NoCalls, 0, <<>>, luaH_checktable(stack[2]), stack)
    ELSE NewLoop(c, stack, Len(objects) + 1, T, ord, 1, {}, NoCalls)

\* The table a constructor call is given is a new table of the script; it is
\* told from the tables of the heap by its number.
ArgTable == Tab(0)

\* luaH_class_new with the allocator call of line 288 ahead of the
\* luaH_checktable of line 285.
ClassNew_allocfirst(c, self, init, T, ord) ==
    /\ Len(objects) < Len(InitObjects) + MaxObjects
    /\ objects' = ApplyCalls(Allocate(c), luaH_class_new(c, <<self, init>>, T, ord).calls)
    /\ last' = Outcome("new", <<c, init, T>>, luaH_class_new(c, <<self, init>>, T, ord), NULL)
    /\ UNCHANGED <<luaH_classes, registry, class, tables, refcount>>

ClassNew(c, self, init, T, ord) ==
    /\ init.t = "table" => Len(objects) < Len(InitObjects) + MaxObjects
    /\ objects' = IF luaH_checktable(init) = NoErr
                   THEN ApplyCalls(Allocate(c), luaH_class_new(c, <<self, init>>, T, ord).calls)
                   ELSE objects
    /\ last' = Outcome("new", <<c, init, T>>, luaH_class_new(c, <<self, init>>, T, ord), NULL)
    /\ UNCHANGED <<luaH_classes, registry, class, tables, refcount>>

\* ------------------------------------------------------ signals (172-193)

\* luaH_checkfunction: a type error unless the value is a function.
luaH_checkfunction(x) == IF x.t = "function" THEN NoErr ELSE TypeError("function")

\* The functions registered under a name (none: the empty array).
SigFuncs(signals, name) == IF name \in DOMAIN signals THEN signals[name] ELSE <<>>

\* signal_add: the reference appended to the array of the name.
signal_add(signals, name, ref) == MapPut(signals, name, Append(SigFuncs(signals, name), ref))

RECURSIVE RemoveFirst(_, _)
RemoveFirst(seq, x) ==
    IF seq = <<>> THEN <<>>
    ELSE IF Head(seq) = x THEN Tail(seq)
    ELSE <<Head(seq)>> \o RemoveFirst(Tail(seq), x)

\* signal_remove: the first stored reference equal to ref removed, and the
\* array dropped with its last reference; nothing when there is none.
signal_remove(signals, name, ref) ==
    LET left == RemoveFirst(SigFuncs(signals, name), ref) IN
    IF name \notin DOMAIN signals THEN signals
    ELSE IF left = <<>> THEN [n \in DOMAIN signals \ {name} |-> signals[n]]
    ELSE [signals EXCEPT ![name] = left]

\* luaH_object_ref and luaH_object_unref: one count more, one count less.
luaH_object_ref(counts, f) == [counts EXCEPT ![f] = @ + 1]
luaH_object_unref(counts, f) == [counts EXCEPT ![f] = @ - 1]

\* The registrations of function f stored in the signal trees of all classes.
Stored(f) ==
    UNION {UNION {{<<c, n, i>> : i \in {j \in 1..Len(class[c].signals[n]) :
                                          class[c].signals[n][j] = f}} :
                  n \in DOMAIN class[c].signals} : c \in Classes}
NumStored(f) == Cardinality(Stored(f))
TotalStored == Cardinality(UNION {Stored(f) : f \in Funcs})

\* luaH_class_add_signal without the luaH_checkfunction of line 175: any value
\* is referenced and stored.
luaH_class_add_signal_nocheck(c, name, x) ==
    /\ refcount' = luaH_object_ref(refcount, x.v)
    /\ class' = [class EXCEPT ![c].signals = signal_add(@, name, x.v)]
    /\ last' = Outcome("add_signal", <<c, name, x>>, Quiet, NULL)
    /\ UNCHANGED <<luaH_classes, registry, tables, objects>>

luaH_class_add_signal(c, name, x) ==
    IF luaH_checkfunction(x) # NoErr
    THEN /\ last' = Outcome("add_signal", <<c, name, x>>,
                            Res(NoCalls, 0, <<>>, luaH_checkfunction(x), <<>>), NULL)
         /\ UNCHANGED <<luaH_classes, registry, class, tables, objects, refcount>>
    ELSE /\ refcount' = luaH_object_ref(refcount, x.v)
         /\ class' = [class EXCEPT ![c].signals = signal_add(@, name, x.v)]
         /\ last' = Outcome("add_signal", <<c, name, x>>, Quiet, NULL)
         /\ UNCHANGED <<luaH_classes, registry, tables, objects>>

\* luaH_class_remove_signal without the luaH_object_unref of line 185.
luaH_class_remove_signal_nounref(c, name, x) ==
    IF luaH_checkfunction(x) # NoErr
    THEN /\ last' = Outcome("remove_signal", <<c, name, x>>,
                            Res(NoCalls, 0, <<>>, luaH_checkfunction(x), <<>>), NULL)
         /\ UNCHANGED <<luaH_classes, registry, class, tables, objects, refcount>>
    ELSE /\ class' = [class EXCEPT ![c].signals = signal_remove(@, name, x.v)]
         /\ last' = Outcome("remove_signal", <<c, name, x>>, Quiet, NULL)
         /\ UNCHANGED <<luaH_classes, registry, tables, objects, refcount>>

luaH_class_remove_signal(c, name, x) ==
    IF luaH_checkfunction(x) # NoErr
    THEN /\ last' = Outcome("remove_signal", <<c, name, x>>,
                            Res(NoCalls, 0, <<>>, luaH_checkfunction(x), <<>>), NULL)
         /\ UNCHANGED <<luaH_classes, registry, class, tables, objects, refcount>>
    ELSE /\ class' = [class EXCEPT ![c].signals = signal_remove(@, name, x.v)]
         /\ refcount' = luaH_object_unref(refcount, x.v)
         /\ last' = Outcome("remove_signal", <<c, name, x>>, Quiet, NULL)
         /\ UNCHANGED <<luaH_classes, registry, tables, objects>>

\* signal_object_emit: every function stored under the name called in order
\* with the arguments.
signal_object_emit(signals, name, args) ==
    [i \in 1..Len(SigFuncs(signals, name)) |->
        Invocation(SigFuncs(signals, name)[i], NULL, args)]

\* luaH_class_emit_signal stopping after the first callback.
luaH_class_emit_signal_first(c, name, args) ==
    /\ last' = Outcome("emit_signal", <<c, name>>,
                       Res(IF signal_object_emit(class[c].signals, name, args) = <<>>
                           THEN NoCalls
                           ELSE <<signal_object_emit(class[c].signals, name, args)[1]>>,
                           0, <<>>, NoErr, <<>>), NULL)
    /\ UNCHANGED <<luaH_classes, registry, class, tables, objects, refcount>>

luaH_class_emit_signal(c, name, args) ==
    /\ last' = Outcome("emit_signal", <<c, name>>,
                       Res(signal_object_emit(class[c].signals, name, args),
                           0, <<>>, NoErr, <<>>), NULL)
    /\ UNCHANGED <<luaH_classes, registry, class, tables, objects, refcount>>

\* ------------------------------------------------------------ the callers

Registered == {luaH_classes[i] : i \in 1..Len(luaH_classes)}

\* The userdata blocks the class allocators created.
Handles == {i \in 1..Len(objects) : objects[i].by # NULL}

\* The C functions of the classes: construct, read and write callbacks of
\* properties, and the miss handlers.
cbNew == 1
cbIndex == 2
cbNewindex == 3
cbIndexMiss == 4
cbIndex2 == 5
cbNewindexMiss == 6
cbNew2 == 7

\* The meta functions a class registers: __index and a method, and for some
\* classes a method named like a property.
MetaPlain == MapPut(MapPut(EmptyMap, Str(sIndex), Fun(-1)), Str(sShow), Fun(-2))
MetaWithA == MapPut(MetaPlain, Str(sA), Fun(-3))
Methods == MapPut(EmptyMap, Str(sShow), Fun(-2))

\* The ways a class is set up: with or without miss handlers and methods.
SetupBare == [im |-> NULL, nm |-> NULL, meta |-> MetaPlain]
SetupFull == [im |-> cbIndexMiss, nm |-> cbNewindexMiss, meta |-> MetaWithA]

\* A class is set up once, at startup.
ClassSetup(c, ch) ==
    /\ c \notin Registered
    /\ luaH_class_setup(c, ClassNames[c], 1, ch.im, ch.nm, Methods, ch.meta)

\* Properties are added to a class that was set up.
ClassAddProperty(c, name, prop) ==
    /\ c \in Registered
    /\ luaH_class_add_property(c, name, prop.new, prop.index, prop.newindex)

NewObject(c) ==
    /\ c \in Registered
    /\ Len(objects) < Len(InitObjects) + MaxObjects
    /\ ClassAllocator(c)

ClassAddSignal(c, name, x) ==
    /\ c \in Registered
    /\ x.t = "function" => TotalStored < MaxRegs
    /\ luaH_class_add_signal(c, name, x)

ClassRemoveSignal(c, name, x) ==
    /\ c \in Registered
    /\ x.t = "function" => refcount[x.v] > -MaxDebt
    /\ luaH_class_remove_signal(c, name, x)

ClassEmitSignal(c, name, args) ==
    /\ c \in Registered
    /\ luaH_class_emit_signal(c, name, args)

\* class{...}: the library table of the class called with a table.
Construct(c, init, T, ord) ==
    /\ c \in Registered
    /\ ClassNew(c, Tab(registry[c].v + 1), init, T, ord)

\* The traversal orders of a table: the permutations of its keys.
Orders(T) ==
    {ord \in [1..Cardinality(DOMAIN T) -> DOMAIN T] :
        \A k \in DOMAIN T : \E i \in DOMAIN ord : ord[i] = k}

\* Every kind of Lua value, to probe luaH_class_get with.
ProbeValues ==
    {Nil, Bool(TRUE), Num(1), Str(sA), Tab(1), Fun(1), LightUD(1)}
        \cup {UD(i) : i \in 1..Len(objects)}

sS == <<115>>
sT == <<116>>

PropFull == Property(cbNew, cbIndex, cbNewindex)
PropNewOnly == Property(cbNew2, NULL, NULL)
PropReadOnly == Property(NULL, cbIndex2, NULL)

PropStore == Property(cbSet, cbGet, cbSet)

TableA == MapPut(EmptyMap, Str(sA), Num(1))
TableB == MapPut(EmptyMap, Str(sB), Num(1))

\* The whole program with one input of each kind.
Next ==
    \/ \E c \in Classes : ClassSetup(c, SetupBare)
    \/ \E c \in Classes : ClassAddProperty(c, sA, PropFull)
    \/ \E c \in Classes : NewObject(c)
    \/ \E x \in ProbeValues : ClassGet(x)
    \/ \E h \in Handles : ClassIndex(UD(h), Str(sA))
    \/ \E h \in Handles : ClassNewindex(UD(h), Str(sA), Num(1))
    \/ \E c \in Classes : Construct(c, ArgTable, TableA, <<Str(sA)>>)
    \/ \E c \in Classes : ClassAddSignal(c, sS, Fun(1))
    \/ \E c \in Classes : ClassRemoveSignal(c, sS, Fun(1))
    \/ \E c \in Classes : ClassEmitSignal(c, sS, <<>>)

Spec == Init /\ [][Next]_vars

\* Dispatch: classes with and without miss handlers and colliding methods,
\* properties with and without a read callback, and keys of every kind.
DispatchKeys == {Str(sA), Str(sB), Str(sOne), Str(sA0B), Num(1), Bool(TRUE), Nil}

NextDispatch ==
    \/ \E c \in Classes, ch \in {SetupBare, SetupFull} : ClassSetup(c, ch)
    \/ \E c \in Classes, pr \in {PropFull, PropNewOnly} : ClassAddProperty(c, sA, pr)
    \/ \E pr \in {PropReadOnly, PropNewOnly} : ClassAddProperty(1, sOne, pr)
    \/ \E c \in Classes : NewObject(c)
    \/ \E h \in Handles, k \in DispatchKeys : ClassIndex(UD(h), k)
    \/ \E h \in Handles, k \in DispatchKeys : ClassNewindex(UD(h), k, Num(1))

SpecDispatch == Init /\ [][NextDispatch]_vars

\* Construction: tables with string keys, numeric keys, a key with a zero
\* byte, a boolean key, and no keys.
CtorTables ==
    {EmptyMap,
     MapPut(TableA, Str(sB), Num(2)),
     MapPut(EmptyMap, Num(1), Num(5)),
     MapPut(MapPut(EmptyMap, Num(1), Num(5)), Str(sOne), Num(6)),
     MapPut(TableA, Str(sA0B), Num(2)),
     MapPut(TableA, Bool(TRUE), Num(3))}

NextNew ==
    \/ \E c \in Classes : ClassSetup(c, SetupBare)
    \/ \E n \in {sA, sB, sOne}, pr \in {PropFull, PropReadOnly} :
          ClassAddProperty(1, n, pr)
    \/ \E c \in Classes, T \in CtorTables :
          \E ord \in Orders(T) : Construct(c, ArgTable, T, ord)
    \/ \E c \in Classes, x \in {Nil, Num(1)} : Construct(c, x, EmptyMap, <<>>)

SpecNew == Init /\ [][NextNew]_vars

\* Signals: two names, two functions and a value that is not a function.
SignalNames == {sS, sT}

NextSignal ==
    \/ \E c \in Classes : ClassSetup(c, SetupBare)
    \/ \E c \in Classes, n \in SignalNames, x \in {Fun(1), Fun(2), Num(1)} :
          ClassAddSignal(c, n, x)
    \/ \E c \in Classes, n \in SignalNames, x \in {Fun(1), Fun(2), Num(1)} :
          ClassRemoveSignal(c, n, x)
    \/ \E c \in Classes, n \in SignalNames : ClassEmitSignal(c, n, <<Num(1)>>)

SpecSignal == Init /\ [][NextSignal]_vars

\* Properties with a stored field: classes with and without a method named
\* like the property, a property whose callbacks store and return the field
\* and one whose callbacks do not, added in any order and again.
FieldValues == {Num(1), Num(2), Nil}

NextProperty ==
    \/ \E c \in Classes, ch \in {SetupBare, SetupFull} : ClassSetup(c, ch)
    \/ \E pr \in {PropStore, PropFull} : ClassAddProperty(1, sA, pr)
    \/ ClassAddProperty(1, sB, PropStore)
    \/ \E c \in Classes, v \in FieldValues \ {Nil} :
          Construct(c, ArgTable, MapPut(EmptyMap, Str(sA), v), <<Str(sA)>>)
    \/ \E h \in Handles, k \in {Str(sA), Str(sB)} : ClassIndex(UD(h), k)
    \/ \E h \in Handles, v \in FieldValues : ClassNewindex(UD(h), Str(sA), v)

SpecProperty == Init /\ [][NextProperty]_vars

\* Two classes side by side: both are set up and create objects; the first
\* gets a property added, the second gets a signal function added and removed.
NextIsolation ==
    \/ \E c \in Classes : ClassSetup(c, SetupFull)
    \/ ClassAddProperty(1, sB, PropFull)
    \/ \E c \in Classes : NewObject(c)
    \/ ClassAddSignal(2, sS, Fun(1))
    \/ ClassRemoveSignal(2, sS, Fun(1))

SpecIsolation == Init /\ [][NextIsolation]_vars

\* Checked conversion: values of every kind, among them the objects of both
\* classes, checked against each registered class.
NextUdata ==
    \/ \E c \in Classes : ClassSetup(c, SetupBare)
    \/ \E c \in Classes : NewObject(c)
    \/ \E x \in ProbeValues, c \in Registered : CheckUdata(x, c)

SpecUdata == Init /\ [][NextUdata]_vars

\* ------------------------------------------------------------- properties

\* The arguments of the most recent call.
Arg(i) == last.args[i]

\* A value is a tagged native handle of a registered class: a full userdata
\* whose metatable is the one the registry holds for a registered class.
IsClassHandle(x) ==
    /\ x.t = "userdata"
    /\ objects[x.v].mt # NULL
    /\ \E c \in Registered : registry[c] = Tab(objects[x.v].mt)

\* C1: in every reachable state luaH_class_get returns, for every userdata
\* block a class allocator created, the class whose allocator created it; and
\* a call of luaH_class_get on such a block returned that class.
ClassOfHandleIsItsClass ==
    /\ \A h \in Handles : luaH_class_get(UD(h)) = objects[h].by
    /\ (last.op = "class_get" /\ Arg(1).t = "userdata" /\ Arg(1).v \in Handles)
          => last.ret = objects[Arg(1).v].by

\* C1 happens: a class was registered just now, after a block of another
\* class was created, and the registry holds two classes.
ClassOfHandleWitness ==
    /\ last.op = "class_setup"
    /\ Len(luaH_classes) = 2
    /\ \E h \in Handles : objects[h].by = luaH_classes[1]

\* C2: luaH_class_get returns NULL for every value that is not a tagged
\* handle of a registered class.
ClassOfNonHandleIsNone ==
    (last.op = "class_get" /\ ~IsClassHandle(Arg(1))) => last.ret = NULL

\* C3: the reference count of every function equals the number of its
\* registrations stored in the signal trees.
RefcountEqualsRegistrations == \A f \in Funcs : refcount[f] = NumStored(f)

\* C4: luaH_class_remove_signal with a function that is not stored under the
\* name leaves the signal trees and every reference count as they were and
\* raises nothing.
RemoveUnregisteredIsNoop ==
    [][(/\ last'.op = "remove_signal"
        /\ last'.args[3].t = "function"
        /\ \A i \in 1..Len(SigFuncs(class[last'.args[1]].signals, last'.args[2])) :
              SigFuncs(class[last'.args[1]].signals, last'.args[2])[i] # last'.args[3].v)
       => (class' = class /\ refcount' = refcount /\ last'.err = NoErr)]_vars

\* The class whose allocator created the object of the most recent dispatch.
DispClass == objects[Arg(1).v].by

\* What the miss path of a dispatch does: the handler of the class called
\* once with the object and the arguments untouched, or nothing at all.
MissPath(handler) ==
    /\ last.err = NoErr
    /\ last.stack = last.args
    /\ IF handler # NULL
       THEN /\ last.calls = <<Invocation(handler, Arg(1).v, last.args)>>
            /\ last.nret = PropFuncNRet(handler)
            /\ last.vals = PropFuncVals(handler)
       ELSE last.calls = NoCalls /\ last.nret = 0 /\ last.vals = <<>>

MissHandler ==
    IF last.op = "index" THEN class[DispClass].index_miss_property
    ELSE class[DispClass].newindex_miss_property

\* C5: a dispatch with a key that is not a string takes the miss path: the
\* key is not converted, no property is looked up and no error is raised.
NonStringKeyTakesMissPath ==
    (last.op \in {"index", "newindex"} /\ Arg(2).t # "string")
        => MissPath(MissHandler)

\* The invocations of construct callbacks luaH_class_new owes a table T for
\* class c: one per string key that names a property with a construct
\* callback, with the new object, the key and the value of the key.
OwedKeys(c, T) ==
    {k \in DOMAIN T : /\ k.t = "string"
                      /\ k.v \in DOMAIN class[c].properties
                      /\ class[c].properties[k.v].new # NULL}
OwedCall(c, T, k) ==
    Invocation(class[c].properties[k.v].new, last.vals[1].v,
               <<Tab(registry[c].v + 1), ArgTable, last.vals[1], k, T[k]>>)

\* C6: luaH_class_new invokes no construct callback for a pair whose key is
\* not a string or names no property, leaves the keys as they are and goes on
\* to the remaining pairs: it ends without an error and every invocation is
\* one owed to a string key of the table.
CtorIgnoresOtherKeys ==
    (last.op = "new" /\ Arg(2).t = "table")
        => /\ last.err = NoErr
           /\ \A i \in 1..Len(last.calls) :
                 \E k \in OwedKeys(Arg(1), Arg(3)) :
                    last.calls[i] = OwedCall(Arg(1), Arg(3), k)
           /\ \A k \in OwedKeys(Arg(1), Arg(3)) :
                 \E i \in 1..Len(last.calls) :
                    last.calls[i] = OwedCall(Arg(1), Arg(3), k)

\* C7: for a table whose keys are all strings, luaH_class_new invokes exactly
\* the owed construct callbacks, each once, whatever the traversal order, with
\* the object allocated by this call.
CtorIsFold ==
    (last.op = "new" /\ Arg(2).t = "table" /\ \A k \in DOMAIN Arg(3) : k.t = "string")
        => /\ last.err = NoErr
           /\ last.nret = 1
           /\ last.vals = <<UD(Len(objects))>>
           /\ Len(last.calls) = Cardinality(OwedKeys(Arg(1), Arg(3)))
           /\ \A k \in OwedKeys(Arg(1), Arg(3)) :
                 \E i \in 1..Len(last.calls) :
                    last.calls[i] = OwedCall(Arg(1), Arg(3), k)

\* The field of the most recent dispatch is a string that names a property of
\* the object's class, and the metatable of the object has no such field.
FieldIsProperty ==
    /\ Arg(2).t = "string"
    /\ Arg(2).v \in DOMAIN class[DispClass].properties
    /\ lua_rawget(lua_getmetatable(Arg(1)), Arg(2)) = Nil

\* C8: reading a field that names a property with a read callback R, on an
\* object whose metatable has no such field, invokes R once with the object
\* and returns R's results; no other callback is invoked.
ReadInvokesReadCallback ==
    (/\ last.op = "index"
     /\ FieldIsProperty
     /\ class[DispClass].properties[Arg(2).v].index # NULL)
        => LET R == class[DispClass].properties[Arg(2).v].index IN
           /\ last.calls = <<Invocation(R, Arg(1).v, last.args)>>
           /\ last.nret = PropFuncNRet(R)
           /\ last.vals = PropFuncVals(R)
           /\ last.err = NoErr

\* C8 happens: such a read on a class that has a miss handler and a property
\* whose read and write callbacks differ.
ReadInvokesReadCallbackWitness ==
    /\ last.op = "index"
    /\ FieldIsProperty
    /\ class[DispClass].properties[Arg(2).v].index # NULL
    /\ class[DispClass].index_miss_property # NULL
    /\ Len(last.calls) = 1

\* C9: when the metatable of the object holds a value under the field, a read
\* returns that one value and invokes no callback.
ReadPrefersMetatable ==
    (last.op = "index" /\ lua_rawget(lua_getmetatable(Arg(1)), Arg(2)) # Nil)
        => /\ last.nret = 1
           /\ last.vals = <<lua_rawget(lua_getmetatable(Arg(1)), Arg(2))>>
           /\ last.calls = NoCalls
           /\ last.err = NoErr

\* C9 happens: the field is in the metatable and also names a property with
\* a read callback, on a class with a miss handler.
ReadPrefersMetatableWitness ==
    /\ last.op = "index"
    /\ Arg(2) = Str(sA)
    /\ lua_rawget(lua_getmetatable(Arg(1)), Arg(2)) # Nil
    /\ sA \in DOMAIN class[DispClass].properties
    /\ class[DispClass].properties[sA].index # NULL
    /\ class[DispClass].index_miss_property # NULL

\* C10: a dispatch with a string field that is neither in the metatable nor
\* a name of the property table takes the miss path.
UnknownFieldTakesMissPath ==
    (/\ last.op \in {"index", "newindex"}
     /\ Arg(2).t = "string"
     /\ lua_rawget(lua_getmetatable(Arg(1)), Arg(2)) = Nil
     /\ Arg(2).v \notin DOMAIN class[DispClass].properties)
        => MissPath(MissHandler)

\* A byte string with no zero byte.
NoZeroByte(str) == \A i \in 1..Len(str) : str[i] # 0

\* C7 for tables whose keys hold no zero byte: the part of C7 that the code
\* keeps.
CtorIsFoldNoZeroByte ==
    (/\ last.op = "new"
     /\ Arg(2).t = "table"
     /\ \A k \in DOMAIN Arg(3) : k.t = "string" /\ NoZeroByte(k.v))
        => /\ last.err = NoErr
           /\ last.nret = 1
           /\ last.vals = <<UD(Len(objects))>>
           /\ Len(last.calls) = Cardinality(OwedKeys(Arg(1), Arg(3)))
           /\ \A k \in OwedKeys(Arg(1), Arg(3)) :
                 \E i \in 1..Len(last.calls) :
                    last.calls[i] = OwedCall(Arg(1), Arg(3), k)

\* C10 for fields that hold no zero byte: the part of C10 that the code keeps.
UnknownFieldNoZeroByte ==
    (/\ last.op \in {"index", "newindex"}
     /\ Arg(2).t = "string"
     /\ NoZeroByte(Arg(2).v)
     /\ lua_rawget(lua_getmetatable(Arg(1)), Arg(2)) = Nil
     /\ Arg(2).v \notin DOMAIN class[DispClass].properties)
        => MissPath(MissHandler)

\* C11 as stated: a dispatch on a field that names a property of the class
\* whose callback for this kind of access (read or write) is NULL invokes no
\* callback, not even the miss handler of the class, and raises nothing; a
\* read returns no value.
PropertyWithoutCallbackYieldsNothing ==
    (/\ last.op \in {"index", "newindex"}
     /\ Arg(2).t = "string"
     /\ Arg(2).v \in DOMAIN class[DispClass].properties
     /\ IF last.op = "index"
        THEN class[DispClass].properties[Arg(2).v].index = NULL
        ELSE class[DispClass].properties[Arg(2).v].newindex = NULL)
        => /\ last.calls = NoCalls
           /\ last.err = NoErr
           /\ last.op = "index" => (last.nret = 0 /\ last.vals = <<>>)

\* C11, amended: a dispatch on a field that names a property of the class,
\* absent from the metatable of the object, whose callback for this kind of
\* access (read or write) is NULL, invokes no callback, not even the miss
\* handler of the class, returns no value and raises nothing.
PropertyWithoutCallbackIsSilent ==
    (/\ last.op \in {"index", "newindex"}
     /\ FieldIsProperty
     /\ IF last.op = "index"
        THEN class[DispClass].properties[Arg(2).v].index = NULL
        ELSE class[DispClass].properties[Arg(2).v].newindex = NULL)
        => /\ last.calls = NoCalls
           /\ last.nret = 0
           /\ last.vals = <<>>
           /\ last.err = NoErr

\* C11 happens: a write to a property that has a read callback and no write
\* callback, on a class that has a miss handler for writes.
PropertyWithoutCallbackWitness ==
    /\ last.op = "newindex"
    /\ FieldIsProperty
    /\ class[DispClass].properties[Arg(2).v].index # NULL
    /\ class[DispClass].properties[Arg(2).v].newindex = NULL
    /\ class[DispClass].newindex_miss_property # NULL

\* C11 for reads: a read of a property that has no read callback, on a class
\* that has a miss handler for reads.
PropertyWithoutReadCallbackReached ==
    /\ last.op = "index"
    /\ FieldIsProperty
    /\ class[DispClass].properties[Arg(2).v].index = NULL
    /\ class[DispClass].index_miss_property # NULL

\* C12: luaH_class_add_signal with a value that is not a function raises a
\* type error and leaves the signal trees of all classes and the reference
\* count of every function as they were.
AddNonFunctionFailsFirst ==
    [][(last'.op = "add_signal" /\ last'.args[3].t # "function")
       => /\ last'.err = TypeError("function")
          /\ class' = class
          /\ refcount' = refcount]_vars

\* C12 happens: such a call failed on a class that holds a registration
\* under the same name.
AddNonFunctionWitness ==
    /\ last.op = "add_signal"
    /\ Arg(3).t # "function"
    /\ last.err = TypeError("function")
    /\ SigFuncs(class[Arg(1)].signals, Arg(2)) # <<>>

\* The number of times function f is stored under a name of a signal tree.
Occurrences(signals, name, f) ==
    Cardinality({i \in 1..Len(SigFuncs(signals, name)) : SigFuncs(signals, name)[i] = f})

\* The most recent call and the one this step makes are a successful
\* luaH_class_add_signal and a luaH_class_remove_signal of the same function
\* under the same name of the same class, and the function was not stored
\* under the name before the add.
AddThenRemove ==
    /\ last.op = "add_signal" /\ last.err = NoErr
    /\ last'.op = "remove_signal" /\ last'.args = last.args
    /\ Occurrences(class[Arg(1)].signals, Arg(2), Arg(3).v) = 1

\* C13: luaH_class_add_signal raises the count of the function by one; a
\* luaH_class_remove_signal that follows it at once, when the function was
\* not stored under the name before, leaves luaH_class_emit_signal of the
\* name invoking the function zero times and takes the count back by one, to
\* its value before the add.
AddRemoveRoundTrip ==
    [][/\ (last'.op = "add_signal" /\ last'.err = NoErr)
          => refcount'[last'.args[3].v] = refcount[last'.args[3].v] + 1
       /\ AddThenRemove
          => /\ \A i \in DOMAIN signal_object_emit(class'[Arg(1)].signals, Arg(2), <<>>) :
                   signal_object_emit(class'[Arg(1)].signals, Arg(2), <<>>)[i].fn # Arg(3).v
             /\ refcount'[Arg(3).v] = refcount[Arg(3).v] - 1
             /\ last'.err = NoErr]_vars

\* C13 happens: a function was removed from a name under which another
\* function stays stored, and its count is back at zero.
AddRemoveRoundTripWitness ==
    /\ last.op = "remove_signal" /\ last.err = NoErr
    /\ Arg(3).t = "function"
    /\ Occurrences(class[Arg(1)].signals, Arg(2), Arg(3).v) = 0
    /\ SigFuncs(class[Arg(1)].signals, Arg(2)) # <<>>
    /\ refcount[Arg(3).v] = 0

\* The functions an emission of a name invokes on a signal tree, in order.
EmitFns(signals, name) ==
    [i \in DOMAIN signal_object_emit(signals, name, <<>>) |->
        signal_object_emit(signals, name, <<>>)[i].fn]

\* The emissions of every other (class, name) are what they were.
OtherEmitsUnchanged(c, name) ==
    \A d \in Classes, m \in SignalNames :
        (d # c \/ m # name)
            => EmitFns(class'[d].signals, m) = EmitFns(class[d].signals, m)

NonTableInitFailsFirst ==
    [][(last'.op = "new" /\ last'.args[2].t # "table")
       => /\ last'.err = TypeError("table")
          /\ last'.nret = 0
          /\ last'.calls = NoCalls
          /\ objects' = objects]_vars

\* C15 happens: such a call failed on a class that has a property with a
\* construct callback.
NonTableInitWitness ==
    /\ last.op = "new"
    /\ Arg(2).t # "table"
    /\ last.err = TypeError("table")
    /\ \E n \in DOMAIN class[Arg(1)].properties : class[Arg(1)].properties[n].new # NULL

\* The property of a name of class c has construct and write callbacks that
\* store the value in the field of the object and a read callback that
\* returns the field.
StoresField(c, name) ==
    /\ name \in DOMAIN class[c].properties
    /\ class[c].properties[name] = PropStore

\* The key of the one-pair table the most recent luaH_class_new was given.
OnlyKey == CHOOSE k \in DOMAIN Arg(3) : TRUE

\* The most recent call stored a value in a property that stores its field:
\* a luaH_class_new with the table {P = v}, or a write of v to field P.
JustStored ==
    \/ /\ last.op = "new" /\ last.err = NoErr
       /\ Cardinality(DOMAIN Arg(3)) = 1
       /\ OnlyKey.t = "string"
       /\ StoresField(Arg(1), OnlyKey.v)
    \/ /\ last.op = "newindex"
       /\ Arg(2).t = "string"
       /\ StoresField(DispClass, Arg(2).v)
StoredObj == IF last.op = "new" THEN last.vals[1] ELSE Arg(1)
StoredName == IF last.op = "new" THEN OnlyKey ELSE Arg(2)
StoredVal == IF last.op = "new" THEN Arg(3)[OnlyKey] ELSE Arg(3)

\* This step reads the property the most recent call stored, in the same
\* object.
ReadBack == JustStored /\ last'.op = "index" /\ last'.args = <<StoredObj, StoredName>>

\* C16 as stated: a read of property P that follows luaH_class_new with
\* {P = v}, or a write of v to P, returns v.
PropertyRoundTrip ==
    [][ReadBack => /\ last'.err = NoErr
                   /\ last'.nret = 1
                   /\ last'.vals = <<StoredVal>>]_vars

\* C16, amended: when the metatable of the object holds no value under P, a
\* read of property P that follows luaH_class_new with {P = v}, or a write of
\* v to P, returns v.
PropertyRoundTripUnshadowed ==
    [][(ReadBack /\ lua_rawget(lua_getmetatable(StoredObj), StoredName) = Nil)
       => /\ last'.err = NoErr
          /\ last'.nret = 1
          /\ last'.vals = <<StoredVal>>]_vars

\* C16 happens: a read of a storing property, not shadowed by the metatable,
\* returned the second value, which the object holds.
PropertyRoundTripWitness ==
    /\ last.op = "index"
    /\ Arg(2).t = "string"
    /\ StoresField(DispClass, Arg(2).v)
    /\ lua_rawget(lua_getmetatable(Arg(1)), Arg(2)) = Nil
    /\ last.vals = <<Num(2)>>
    /\ objects[Arg(1).v].field = Num(2)

\* What the operations on class d give: the lookup of a name, a read and a
\* write of a field of each of its objects, a construction and an emission.
\* Each is written for the state before and the state after a step.
SameOnClass(d) ==
    /\ g_tree_lookup(class'[d].properties, sB) = g_tree_lookup(class[d].properties, sB)
    /\ \A h \in {i \in Handles : objects[i].by = d} :
          /\ luaH_class_index(<<UD(h), Str(sB)>>)' = luaH_class_index(<<UD(h), Str(sB)>>)
          /\ luaH_class_newindex(<<UD(h), Str(sB), Num(1)>>)'
                = luaH_class_newindex(<<UD(h), Str(sB), Num(1)>>)
    /\ luaH_class_new(d, <<Tab(0), ArgTable>>, TableB, <<Str(sB)>>)'
          = luaH_class_new(d, <<Tab(0), ArgTable>>, TableB, <<Str(sB)>>)
    /\ \A n \in SignalNames :
          signal_object_emit(class'[d].signals, n, <<>>)
             = signal_object_emit(class[d].signals, n, <<>>)

EntryCalls(f, p, stack) == IF f = NULL THEN NoCalls ELSE <<Invocation(f, p, stack)>>

\* C18: luaH_class_add_property leaves the property tree of the class with
\* one entry for the name, holding the three callbacks of this call, and the
\* entries of other names as they were; no other call changes a property
\* tree; and lookup, dispatch (on a field the metatable does not hold) and
\* construction use the entry the tree holds, which is therefore that of the
\* most recent luaH_class_add_property of the name.
AddPropertyOverwrites ==
    [][LET c == last'.args[1]
           n == last'.args[2]
           obj == last'.args[1]
       IN
       /\ last'.op = "add_property"
          => /\ DOMAIN class'[c].properties = DOMAIN class[c].properties \cup {n}
             /\ class'[c].properties[n] = last'.args[3]
             /\ g_tree_lookup(class'[c].properties, n) = <<last'.args[3]>>
             /\ \A m \in DOMAIN class[c].properties \ {n} :
                   class'[c].properties[m] = class[c].properties[m]
             /\ \A d \in Classes \ {c} : class'[d].properties = class[d].properties
       /\ last'.op # "add_property"
          => \A d \in Classes : class'[d].properties = class[d].properties
       /\ (/\ last'.op \in {"index", "newindex"}
           /\ last'.args[2].t = "string"
           /\ last'.args[2].v \in DOMAIN class[objects[obj.v].by].properties
           /\ lua_rawget(lua_getmetatable(obj), last'.args[2]) = Nil)
          => LET e == class[objects[obj.v].by].properties[last'.args[2].v] IN
             last'.calls = EntryCalls(IF last'.op = "index" THEN e.index ELSE e.newindex,
                                      obj.v, last'.args)
       /\ (last'.op = "new" /\ last'.err = NoErr)
          => \A k \in DOMAIN last'.args[3] :
                (k.t = "string" /\ k.v \in DOMAIN class[c].properties)
                   => last'.calls =
                         EntryCalls(class[c].properties[k.v].new, last'.vals[1].v,
                                    <<Tab(registry[c].v + 1), ArgTable, last'.vals[1],
                                      k, last'.args[3][k]>>)]_vars

\* C18 happens: the entry of a name was replaced by other callbacks, on a
\* class that has an entry of another name and an object whose field the
\* replaced callbacks had set.
AddPropertyOverwritesWitness ==
    /\ last.op = "add_property"
    /\ Arg(2) = sA
    /\ Arg(3) = PropFull
    /\ sB \in DOMAIN class[Arg(1)].properties
    /\ \E h \in Handles : objects[h].by = Arg(1) /\ objects[h].field # Nil

\* C19: a write to a field under which the metatable of the object holds a
\* value invokes no callback, neither the write callback of a property of
\* that name nor the miss handler, changes no userdata and no table, raises
\* nothing and returns 1 with the value of the metatable as its result.
WriteShortcutHasNoEffect ==
    [][(/\ last'.op = "newindex"
        /\ lua_rawget(lua_getmetatable(last'.args[1]), last'.args[2]) # Nil)
       => /\ last'.calls = NoCalls
          /\ last'.err = NoErr
          /\ last'.nret = 1
          /\ last'.vals = <<lua_rawget(lua_getmetatable(last'.args[1]), last'.args[2])>>
          /\ objects' = objects
          /\ tables' = tables]_vars

\* C19 happens: such a write, of a value the object does not hold, on a
\* class that has a storing property of that name and a miss handler.
WriteShortcutWitness ==
    /\ last.op = "newindex"
    /\ lua_rawget(lua_getmetatable(Arg(1)), Arg(2)) # Nil
    /\ StoresField(DispClass, Arg(2).v)
    /\ class[DispClass].newindex_miss_property # NULL
    /\ objects[Arg(1).v].field # Arg(3)
    /\ last.nret = 1

\* A value is a handle tagged with class c: a full userdata whose metatable
\* is the one the registry holds for c.
IsHandleOf(x, c) ==
    /\ x.t = "userdata"
    /\ objects[x.v].mt # NULL
    /\ registry[c] = Tab(objects[x.v].mt)

\* C20: luaH_checkudata returns the object when the value is a handle tagged
\* with the class and raises a type error naming the class for every other
\* value: a value that is no userdata, a handle of another class, a userdata
\* without a metatable; and luaH_toudata leaves the stack as high as it was.
CheckudataIsExact ==
    last.op = "checkudata"
        => /\ IF IsHandleOf(Arg(1), Arg(2))
              THEN last.ret = Arg(1).v /\ last.err = NoErr
              ELSE last.err = TypeError(class[Arg(2)].name)
           /\ Len(last.stack) = 1

\* The parts of C20 the code keeps: handles of the class are returned, values
\* that are no userdata and userdata with another metatable raise the type
\* error, and the stack height is kept.
CheckudataWithMetatable ==
    (last.op = "checkudata"
       /\ (Arg(1).t = "userdata" => objects[Arg(1).v].mt # NULL)
       /\ Arg(1).t # "lightuserdata")
        => /\ IF IsHandleOf(Arg(1), Arg(2))
              THEN last.ret = Arg(1).v /\ last.err = NoErr
              ELSE last.err = TypeError(class[Arg(2)].name)
           /\ last.stack = <<Arg(1)>>
CheckudataKeepsStack == last.op = "checkudata" => last.stack = <<Arg(1)>>

====
